---------------------------- MODULE Spec2Model ----------------------------
(***************************************************************************)
(* Model of the ATS9360 NPT acquisition driver.                            *)
(*                                                                         *)
(*   src/ATS9360_NPT.py            the instrument object (configuration    *)
(*                                 setters, measurement_initialization,    *)
(*                                 measurement_close): the coordinator     *)
(*   src/ATS9360/DataAcquisition.py the acquisition worker (get_data):     *)
(*                                 the producer                            *)
(*                                                                         *)
(* Real numbers of the source (Python floats) are exact rationals          *)
(* [n |-> numerator, d |-> denominator > 0] in lowest terms, or integers   *)
(* in a fixed unit: trigger voltages in mV, trigger delay in ns.           *)
(* The sample rate is in MS/s and the acquisition time in ns, as in the    *)
(* source.                                                                 *)
(***************************************************************************)
EXTENDS Integers, Sequences, FiniteSets, TLC

VARIABLES
    self,            \* the fields of the ATS9360_NPT instance
    raised,          \* exception raised by the last call made on the instance
    main,            \* the issuing context: where it is in the instance's methods
    parameters,      \* the shared manager dict created by _get_parameters
    queue_data,      \* the two channel queues (producer -> consumers)
    queue_closed,    \* per channel queue, the processes that have closed it
    queue_treatment, \* the two treated-data queues (consumers -> issuing context)
    acq,             \* the acquisition worker (get_data): its position and locals
    treat,           \* the two treatment workers
    board,           \* the digitizer board: calls received, posted buffers, capture
    buffers,         \* the payload of each DMA buffer of the pool
    hist             \* history of the run (what was pushed, completed, requested)

vars == <<self, raised, main, parameters, queue_data, queue_closed,
          queue_treatment, acq, treat, board, buffers, hist>>

runVars == <<parameters, queue_data, queue_closed, queue_treatment, acq, treat,
             board, buffers, hist>>

-----------------------------------------------------------------------------
(* Bounds of the model *)

\* largest number of buffers the board fills in one acquisition started by
\* measurement_initialization, and of measurement() calls the instance counts
MaxBuffers == 3
\* number of 16-bit samples per channel held by one modelled DMA buffer
SamplesPerChannel == 2
\* largest transfer time (in clock ticks) measured by data_acquisition
MaxTransferTime == 1
\* largest buffer pool (nb_buffer_allocated) get_data is run with
MaxPoolSize == 4
\* largest buffers_per_acquisition get_data is run with on its own
MaxTarget == 8
\* number of trigger levels tried on each side of 0, per trigger range
MaxLevelSteps == 8
\* largest number of measurement_close calls made on one acquisition
MaxCloses == 2
\* largest number of measurement_initialization calls made on one instance
MaxInits == 2

(* Program constants *)

records_per_buffer == 100
nb_buffer_allocated == 4
\* bits per sample of the ATS9360, as _get_bytes_per_buffer declares it
bitsPerSample == 12
\* parameters['measured_buffers'] = None is modelled as -1
None == -1

-----------------------------------------------------------------------------
(* Exact arithmetic standing for the floats of the source *)

\* Euclid's algorithm on a pair of naturals
Euclid[p \in Nat \X Nat] ==
    IF p[2] = 0 THEN p[1] ELSE Euclid[<<p[2], p[1] % p[2]>>]

GCD(a, b) == Euclid[<<a, b>>]

Abs(x) == IF x < 0 THEN -x ELSE x

\* the rational n/d in lowest terms with a positive denominator (d # 0)
Rat(n, d) ==
    LET g == GCD(Abs(n), Abs(d))
        s == IF d < 0 THEN -1 ELSE 1
    IN  [n |-> s * (n \div g), d |-> s * (d \div g)]

RatMul(a, b) ==
    LET g1 == GCD(Abs(a.n), b.d)
        g2 == GCD(Abs(b.n), a.d)
    IN  Rat((a.n \div g1) * (b.n \div g2), (a.d \div g2) * (b.d \div g1))

RatDiv(a, b) == RatMul(a, Rat(b.d, b.n))

RatAdd(a, b) == Rat(a.n * b.d + b.n * a.d, a.d * b.d)

RatLT(a, b) == a.n * b.d < b.n * a.d

RatLE(a, b) == a.n * b.d <= b.n * a.d

\* Python 2 round(): nearest integer, a tie away from zero
round(r) ==
    IF r.n >= 0 THEN (2 * r.n + r.d) \div (2 * r.d)
    ELSE -((2 * (-r.n) + r.d) \div (2 * r.d))

\* Python int() of a float: truncation toward zero
int(r) == IF r.n >= 0 THEN r.n \div r.d ELSE -((-r.n) \div r.d)

\* str.lower() on the strings the model passes to the setters
lower(s) ==
    CASE s = "EXTERNAL" -> "external"
      [] s = "Internal" -> "internal"
      [] s = "Falling"  -> "falling"
      [] s = "Negative" -> "negative"
      [] OTHER          -> s

-----------------------------------------------------------------------------
(* The tables built by ATS9360_NPT.__init__ *)

allow_samplerates ==
    { Rat(1, 1000), Rat(2, 1000), Rat(5, 1000), Rat(10, 1000), Rat(20, 1000),
      Rat(50, 1000), Rat(100, 1000), Rat(200, 1000), Rat(500, 1000),
      Rat(1, 1), Rat(2, 1), Rat(5, 1), Rat(10, 1), Rat(20, 1), Rat(50, 1),
      Rat(100, 1), Rat(200, 1), Rat(500, 1), Rat(800, 1), Rat(1000, 1),
      Rat(1200, 1), Rat(1500, 1), Rat(1800, 1) }

allow_clock_edges == {"rising", "falling"}

allow_clock_sources == {"internal", "external"}

\* keys 5, 2.5 and 1 V, in mV
allow_trigger_ranges == {5000, 2500, 1000}

allow_trigger_slopes == {"positive", "negative"}

-----------------------------------------------------------------------------
(* State after ATS9360_NPT.__init__; no acquisition has been initialised *)

\* the 'message' key is absent from the shared dict until the producer writes it
NoMessage ==
    [ written |-> FALSE, attempt |-> 0, transferTime_sec |-> 0,
      buffers |-> 0, buffersPerSec |-> Rat(0, 1),
      records |-> 0, recordsPerSec |-> Rat(0, 1),
      bytes |-> 0, MbytesPerSec |-> Rat(0, 1),
      samples |-> 0, MSPerSec |-> Rat(0, 1) ]

NoParameters ==
    [ samplerate |-> Rat(0, 1), clock_source |-> "", clock_edge |-> "",
      trigger_range |-> 0, trigger_slope |-> "", trigger_level |-> 0,
      trigger_delay |-> 0, acquired_samples |-> 0, records_per_buffer |-> 0,
      nb_buffer_allocated |-> 0, buffers_per_acquisition |-> 0,
      measuring |-> FALSE, safe_acquisition |-> FALSE,
      safe_treatment |-> <<FALSE, FALSE>>, measured_buffers |-> None,
      message |-> NoMessage ]

NoWorker ==
    [ pc |-> "none", error |-> "none", buffersCompleted |-> 0,
      bytesTransferred |-> 0, bytesPerBuffer |-> 0, buff |-> 0,
      transferTime_sec |-> None ]

NoBoard ==
    [ calls |-> <<>>, posted |-> <<>>, complete |-> {}, capturing |-> FALSE,
      aborted |-> FALSE, filled |-> 0, bitsPerSample |-> bitsPerSample ]

NoHistory ==
    [ put_cha |-> <<>>, put_chb |-> <<>>, completed |-> <<>>, waited |-> <<>>,
      stop_at |-> None, waits_after_stop |-> 0, timed_out |-> FALSE,
      terminated |-> {}, posts_since_read |-> <<>>, polled_at |-> None,
      polled_target |-> None, closes |-> 0, inits |-> 0 ]

\* the issuing context is not inside a method of the instance: it may call one
Callable == main.pc \in {"idle", "measuring", "closed"}

\* no value of completed_acquisition has been returned to the issuing context
NoPercentage == [returned |-> FALSE, percentage |-> Rat(0, 1)]

\* the attributes set by ATS9360_NPT.__init__
ATS9360_NPT ==
    [ samplerate |-> Rat(1800, 1),
      clock_source |-> "external",
      clock_edge |-> "rising",
      trigger_range |-> 5000,
      trigger_slope |-> "positive",
      trigger_level |-> 500,
      trigger_delay |-> 0,
      acquired_samples |-> 128 * 80,
      acquisition_time |-> Rat(128 * 80 * 10, 18),
      buffers_per_acquisition |-> 200,
      aquired_buffer |-> 0 ]

\* round(x, 2)
round2(x) == Rat(round(RatMul(x, Rat(100, 1))), 100)

\* do_get_completed_acquisition:
\* round(_aquired_buffer*100./buffers_per_acquisition, 2), the divisor not 0
do_get_completed_acquisition(s) ==
    round2(Rat(s.aquired_buffer * 100, s.buffers_per_acquisition))

\* get_completed_acquisition() called on the instance s by the issuing
\* context m: the percentage is returned, or the division by 0 raises
get_completed_acquisition(m, s) ==
    IF s.buffers_per_acquisition = 0
    THEN [main |-> m, raised |-> "ZeroDivisionError"]
    ELSE [main |-> [m EXCEPT !.completed_acquisition =
                        [returned |-> TRUE,
                         percentage |-> do_get_completed_acquisition(s)]],
          raised |-> "none"]

\* get_all() called on the instance s by the issuing context m: the nine
\* getters of stored fields change nothing; get_completed_acquisition() is
\* the last call
get_all(m, s) == get_completed_acquisition(m, s)

\* the history once a percentage has been returned: the number of buffers
\* the acquisition worker a had completed and the target of the instance s
\* when it was read
Polled(h, a, s) ==
    [h EXCEPT !.polled_at = a.buffersCompleted,
              !.polled_target = s.buffers_per_acquisition]

\* the issuing context before the constructor has called a method
NoCall ==
    [pc |-> "idle", transfert_info |-> FALSE, result |-> NoMessage,
     completed_acquisition |-> NoPercentage]

\* the constructor ends with get_all(), line 166
Init ==
    /\ self = ATS9360_NPT
    /\ raised = get_all(NoCall, ATS9360_NPT).raised
    /\ main = get_all(NoCall, ATS9360_NPT).main
    /\ parameters = NoParameters
    /\ queue_data = [cha |-> <<>>, chb |-> <<>>]
    /\ queue_closed = [cha |-> {}, chb |-> {}]
    /\ queue_treatment = [cha |-> <<>>, chb |-> <<>>]
    /\ acq = NoWorker
    /\ treat = [cha |-> "none", chb |-> "none"]
    /\ board = NoBoard
    /\ buffers = <<>>
    /\ hist = Polled(NoHistory, NoWorker, ATS9360_NPT)

-----------------------------------------------------------------------------
(* The configuration setters of ATS9360_NPT (called by the issuing context   *)
(* between acquisitions)                                                     *)

\* the acquisition-time rule of do_set_acquisition_time: accepted iff
\* acquisition_time > 256./samplerate*1e3
AcquisitionTimeAccepted(samplerate, acquisition_time) ==
    RatLT(RatMul(RatDiv(Rat(256, 1), samplerate), Rat(1000, 1)), acquisition_time)

\* a sample count brought down to a multiple of 128 by an integer division
AcquiredSamples_floor(samplerate, acquisition_time) ==
    LET acquired_samples ==
            round(RatMul(RatMul(samplerate, acquisition_time), Rat(1, 1000)))
    IN  (acquired_samples \div 128) * 128

\* a sample count that is rounded to an integer but not to a multiple of 128
AcquiredSamples_unrounded(samplerate, acquisition_time) ==
    round(RatMul(RatMul(samplerate, acquisition_time), Rat(1, 1000)))

\* int(round(round(samplerate*acquisition_time*1e-3)/128)*128)
AcquiredSamples(samplerate, acquisition_time) ==
    LET acquired_samples ==
            round(RatMul(RatMul(samplerate, acquisition_time), Rat(1, 1000)))
    IN  round(Rat(acquired_samples, 128)) * 128

\* acquired_samples/samplerate*1e3
AcquisitionTime(acquired_samples, samplerate) ==
    RatMul(RatDiv(Rat(acquired_samples, 1), samplerate), Rat(1000, 1))

\* the fields of the instance after do_set_acquisition_time(acquisition_time)
\* has run on the instance s, and whether it raised
SetAcquisitionTime(s, acquisition_time) ==
    IF AcquisitionTimeAccepted(s.samplerate, acquisition_time)
    THEN LET n == AcquiredSamples(s.samplerate, acquisition_time)
         IN  [ self |-> [s EXCEPT !.acquired_samples = n,
                                  !.acquisition_time =
                                      AcquisitionTime(n, s.samplerate)],
               raised |-> "none" ]
    ELSE [self |-> s, raised |-> "ValueError"]

do_set_acquisition_time(acquisition_time) ==
    /\ Callable
    /\ LET r == SetAcquisitionTime(self, acquisition_time)
       IN  self' = r.self /\ raised' = r.raised
    /\ UNCHANGED <<main, runVars>>

\* a test that lets every multiple of 50 through
AveragingAccepted_50(number_of_averaging) == number_of_averaging % 50 = 0

\* int(number_of_averaging) % 100 == 0
AveragingAccepted(number_of_averaging) == number_of_averaging % 100 = 0

do_set_averaging(number_of_averaging) ==
    /\ Callable
    /\ IF AveragingAccepted(number_of_averaging)
       THEN /\ self' = [self EXCEPT !.buffers_per_acquisition =
                            number_of_averaging \div records_per_buffer]
            /\ raised' = "none"
       ELSE /\ raised' = "ValueError"
            /\ UNCHANGED self
    /\ UNCHANGED <<main, runVars>>

\* do_get_averaging on the instance s
do_get_averaging(s) == s.buffers_per_acquisition * records_per_buffer

do_set_trigger_delay(trigger_delay) ==
    /\ Callable
    /\ self' = [self EXCEPT !.trigger_delay = trigger_delay]
    /\ raised' = "none"
    /\ UNCHANGED <<main, runVars>>

TriggerLevelAccepted(trigger_level, trigger_range) ==
    trigger_level < trigger_range /\ trigger_level > -trigger_range

do_set_trigger_level(trigger_level) ==
    /\ Callable
    /\ IF TriggerLevelAccepted(trigger_level, self.trigger_range)
       THEN self' = [self EXCEPT !.trigger_level = trigger_level]
            /\ raised' = "none"
       ELSE raised' = "ValueError" /\ UNCHANGED self
    /\ UNCHANGED <<main, runVars>>

\* a test that also lets through a range equal to the level
TriggerRangeAccepted_inclusive(trigger_range, trigger_level) ==
    trigger_range >= trigger_level

TriggerRangeAccepted(trigger_range, trigger_level) ==
    trigger_range > trigger_level

do_set_trigger_range(trigger_range) ==
    /\ Callable
    /\ IF TriggerRangeAccepted(trigger_range, self.trigger_level)
       THEN self' = [self EXCEPT !.trigger_range = trigger_range]
            /\ raised' = "none"
       ELSE raised' = "ValueError" /\ UNCHANGED self
    /\ UNCHANGED <<main, runVars>>

do_set_trigger_slope(trigger_slope) ==
    /\ Callable
    /\ self' = [self EXCEPT !.trigger_slope = lower(trigger_slope)]
    /\ raised' = "none"
    /\ UNCHANGED <<main, runVars>>

do_set_clock_edge(clock_edge) ==
    /\ Callable
    /\ IF lower(clock_edge) \in allow_clock_edges
       THEN self' = [self EXCEPT !.clock_edge = lower(clock_edge)]
            /\ raised' = "none"
       ELSE raised' = "ValueError" /\ UNCHANGED self
    /\ UNCHANGED <<main, runVars>>

SamplerateAccepted(clock_source, samplerate) ==
    IF clock_source = "internal"
    THEN samplerate \in allow_samplerates
    ELSE /\ clock_source = "external"
         /\ RatLE(Rat(300, 1), samplerate)
         /\ RatLE(samplerate, Rat(1800, 1))

\* the new rate is stored first, then the acquisition time is set again from
\* the stored sample count, through do_set_acquisition_time, which may raise
do_set_samplerate(samplerate) ==
    /\ Callable
    /\ IF SamplerateAccepted(self.clock_source, samplerate)
       THEN LET s == [self EXCEPT !.samplerate = samplerate]
                r == SetAcquisitionTime(s,
                        AcquisitionTime(s.acquired_samples, s.samplerate))
            IN  self' = r.self /\ raised' = r.raised
       ELSE raised' = "ValueError" /\ UNCHANGED self
    /\ UNCHANGED <<main, runVars>>

do_set_clock_source(clock_source) ==
    /\ Callable
    /\ IF lower(clock_source) \in allow_clock_sources
       THEN self' = [self EXCEPT !.clock_source = lower(clock_source)]
            /\ raised' = "none"
       ELSE raised' = "ValueError" /\ UNCHANGED self
    /\ UNCHANGED <<main, runVars>>

-----------------------------------------------------------------------------
(* Starting an acquisition *)

\* the shared dict filled by _get_parameters from the instance s
_get_parameters(s) ==
    [ samplerate |-> s.samplerate,
      clock_source |-> s.clock_source,
      clock_edge |-> s.clock_edge,
      trigger_range |-> s.trigger_range,
      trigger_slope |-> s.trigger_slope,
      trigger_level |-> s.trigger_level,
      trigger_delay |-> s.trigger_delay,
      acquired_samples |-> s.acquired_samples,
      records_per_buffer |-> records_per_buffer,
      nb_buffer_allocated |-> nb_buffer_allocated,
      buffers_per_acquisition |-> s.buffers_per_acquisition,
      measuring |-> TRUE,
      safe_acquisition |-> FALSE,
      safe_treatment |-> <<FALSE, FALSE>>,
      measured_buffers |-> None,
      message |-> NoMessage ]

\* measurement_initialization, lines 289-317: new queues, a new shared dict
\* and three new worker processes are created and the acquisition worker is
\* started; it runs from here on, while the issuing context goes on with
\* lines 318-325.  The instance now names the new objects: workers of an
\* earlier acquisition that still run keep running on objects nothing names
\* any more, and are not followed further, nor is the Board handle of the
\* earlier acquisition worker.
measurement_initialization ==
    /\ Callable
    /\ hist.inits < MaxInits
    /\ parameters' = _get_parameters(self)
    /\ queue_data' = [cha |-> <<>>, chb |-> <<>>]
    /\ queue_treatment' = [cha |-> <<>>, chb |-> <<>>]
    /\ queue_closed' = [cha |-> {}, chb |-> {}]
    /\ acq' = [NoWorker EXCEPT !.pc = "Board"]
    /\ treat' = [cha |-> "none", chb |-> "none"]
    /\ buffers' = <<>>
    /\ hist' = [NoHistory EXCEPT !.inits = hist.inits + 1,
                                 !.polled_at = hist.polled_at,
                                 !.polled_target = hist.polled_target]
    /\ board' = [NoBoard EXCEPT !.bitsPerSample = board.bitsPerSample]
    /\ main' = [main EXCEPT !.pc = "start_treat_data_cha"]
    /\ raised' = "none"
    /\ UNCHANGED self

\* line 318: self.worker_treat_data_cha.start()
start_treat_data_cha ==
    /\ main.pc = "start_treat_data_cha"
    /\ treat' = [treat EXCEPT !.cha = "run"]
    /\ main' = [main EXCEPT !.pc = "start_treat_data_chb"]
    /\ UNCHANGED <<self, raised, parameters, queue_data, queue_closed,
                   queue_treatment, acq, board, buffers, hist>>

\* line 319: self.worker_treat_data_chb.start()
start_treat_data_chb ==
    /\ main.pc = "start_treat_data_chb"
    /\ treat' = [treat EXCEPT !.chb = "run"]
    /\ main' = [main EXCEPT !.pc = "close_data_cha"]
    /\ UNCHANGED <<self, raised, parameters, queue_data, queue_closed,
                   queue_treatment, acq, board, buffers, hist>>

\* line 322: the issuing context closes its end of channel queue A
close_data_cha ==
    /\ main.pc = "close_data_cha"
    /\ queue_closed' = [queue_closed EXCEPT !.cha = @ \cup {"main"}]
    /\ main' = [main EXCEPT !.pc = "close_data_chb"]
    /\ UNCHANGED <<self, raised, parameters, queue_data, queue_treatment, acq,
                   treat, board, buffers, hist>>

\* line 323: the issuing context closes its end of channel queue B
close_data_chb ==
    /\ main.pc = "close_data_chb"
    /\ queue_closed' = [queue_closed EXCEPT !.chb = @ \cup {"main"}]
    /\ main' = [main EXCEPT !.pc = "reset_aquired_buffer"]
    /\ UNCHANGED <<self, raised, parameters, queue_data, queue_treatment, acq,
                   treat, board, buffers, hist>>

\* line 325: self._aquired_buffer = 0.; the method returns
reset_aquired_buffer ==
    /\ main.pc = "reset_aquired_buffer"
    /\ self' = [self EXCEPT !.aquired_buffer = 0]
    /\ main' = [main EXCEPT !.pc = "measuring"]
    /\ UNCHANGED <<raised, runVars>>

\* get_completed_acquisition() called by the issuing context on its own
call_get_completed_acquisition ==
    /\ Callable
    /\ LET polled == get_completed_acquisition(main, self)
       IN  /\ main' = polled.main
           /\ raised' = polled.raised
           /\ hist' = IF polled.raised = "none"
                      THEN Polled(hist, acq, self)
                      ELSE hist
    /\ UNCHANGED <<self, parameters, queue_data, queue_closed, queue_treatment,
                   acq, treat, board, buffers>>

\* get_all() called by the issuing context on its own
call_get_all ==
    /\ Callable
    /\ LET polled == get_all(main, self)
       IN  /\ main' = polled.main
           /\ raised' = polled.raised
           /\ hist' = IF polled.raised = "none"
                      THEN Polled(hist, acq, self)
                      ELSE hist
    /\ UNCHANGED <<self, parameters, queue_data, queue_closed, queue_treatment,
                   acq, treat, board, buffers>>

-----------------------------------------------------------------------------
(* The acquisition worker: DataAcquisition.get_data                        *)

Call(op, args) == [op |-> op, args |-> args]

\* a Board method is called: the board records the call
BoardCalls(b, cs) == [b EXCEPT !.calls = @ \o cs]

\* an exception caught around the loop, get_data going on to its clean exit
Raise_caught(error) == [acq EXCEPT !.pc = "statistics", !.error = error]

\* an exception propagates out of get_data: the worker process dies
Raise(error) == [acq EXCEPT !.pc = "failed", !.error = error]

acqFrame == <<self, raised, main, parameters, queue_data, queue_closed,
              queue_treatment, treat, hist>>

\* set_clock: the exception (if any) raised before setCaptureClock is called
ClockError(p) ==
    IF p.clock_source = "internal"
    THEN IF p.samplerate \in allow_samplerates
         THEN IF p.clock_edge \in allow_clock_edges THEN "none" ELSE "KeyError"
         ELSE "KeyError"
    ELSE IF p.clock_source = "external"
         THEN IF p.clock_edge \in allow_clock_edges THEN "none" ELSE "KeyError"
         ELSE "ValueError"

\* the rate and decimation set_clock passes to setCaptureClock
ClockRate(p) ==
    IF p.clock_source = "internal"
    THEN [samplerate |-> p.samplerate, decimation |-> 0]
    ELSE [samplerate |-> RatMul(p.samplerate, Rat(1000000, 1)), decimation |-> 1]

\* line 316: the worker instances its Board
Board ==
    /\ acq.pc = "Board"
    /\ board' = [NoBoard EXCEPT !.bitsPerSample = board.bitsPerSample]
    /\ acq' = [acq EXCEPT !.pc = "set_clock"]
    /\ UNCHANGED <<acqFrame, buffers>>

set_clock ==
    /\ acq.pc = "set_clock"
    /\ IF ClockError(parameters) = "none"
       THEN /\ board' = BoardCalls(board,
                  << Call("setCaptureClock",
                          << parameters.clock_source,
                             ClockRate(parameters).samplerate,
                             parameters.clock_edge,
                             ClockRate(parameters).decimation >>) >>)
            /\ acq' = [acq EXCEPT !.pc = "set_input_control"]
       ELSE /\ acq' = Raise(ClockError(parameters))
            /\ UNCHANGED board
    /\ UNCHANGED <<acqFrame, buffers>>

set_input_control ==
    /\ acq.pc = "set_input_control"
    /\ board' = BoardCalls(board,
          << Call("inputControl", <<"CHANNEL_A">>),
             Call("inputControl", <<"CHANNEL_B">>) >>)
    /\ acq' = [acq EXCEPT !.pc = "set_trigger"]
    /\ UNCHANGED <<acqFrame, buffers>>

\* a code scaled by 128 codes per range instead of 127
TriggerLevelCode_128(trigger_level, trigger_range) ==
    round(RatAdd(Rat(128, 1), Rat(128 * trigger_level, trigger_range)))

\* int(round(128. + 127.*trigger_level/trigger_range)), trigger_range # 0
TriggerLevelCode(trigger_level, trigger_range) ==
    round(RatAdd(Rat(128, 1), Rat(127 * trigger_level, trigger_range)))

\* trigger_delay * samplerate, in samples, with trigger_delay in s (given in
\* ns) and samplerate in S/s (given in MS/s)
TriggerDelaySamples(trigger_delay, samplerate) ==
    RatMul(Rat(trigger_delay, 1000000000), RatMul(samplerate, Rat(1000000, 1)))

\* round(trigger_delay * samplerate + 0.5)
TriggerDelayCode_round(trigger_delay, samplerate) ==
    round(RatAdd(TriggerDelaySamples(trigger_delay, samplerate), Rat(1, 2)))

\* int(trigger_delay * samplerate + 0.5) with trigger_delay in s (given in ns)
\* and samplerate in S/s (given in MS/s)
TriggerDelayCode(trigger_delay, samplerate) ==
    int(RatAdd(TriggerDelaySamples(trigger_delay, samplerate), Rat(1, 2)))

\* a set_trigger that programs the external trigger input first
TriggerCalls_external_first(p) ==
    IF p.trigger_range = 0 \/ p.trigger_range \notin allow_trigger_ranges
    THEN <<>>
    ELSE << Call("setExternalTrigger", <<p.trigger_range>>) >>
         \o IF p.trigger_slope \notin allow_trigger_slopes
            THEN <<>>
            ELSE << Call("setTriggerOperation",
                         << p.trigger_slope,
                            TriggerLevelCode(p.trigger_level, p.trigger_range) >>),
                    Call("setTriggerDelay",
                         <<TriggerDelayCode(p.trigger_delay, p.samplerate)>>),
                    Call("setTriggerTimeOut", <<0>>),
                    Call("configureAuxIO", <<0>>) >>

\* the Board calls set_trigger makes, in order, until it returns or raises
TriggerCalls(p) ==
    IF p.trigger_range = 0 \/ p.trigger_slope \notin allow_trigger_slopes
    THEN <<>>
    ELSE << Call("setTriggerOperation",
                 << p.trigger_slope,
                    TriggerLevelCode(p.trigger_level, p.trigger_range) >>) >>
         \o IF p.trigger_range \notin allow_trigger_ranges
            THEN <<>>
            ELSE << Call("setExternalTrigger", <<p.trigger_range>>),
                    Call("setTriggerDelay",
                         <<TriggerDelayCode(p.trigger_delay, p.samplerate)>>),
                    Call("setTriggerTimeOut", <<0>>),
                    Call("configureAuxIO", <<0>>) >>

\* the exception (if any) that ends set_trigger
TriggerError(p) ==
    IF p.trigger_range = 0 THEN "ZeroDivisionError"
    ELSE IF p.trigger_slope \notin allow_trigger_slopes THEN "KeyError"
    ELSE IF p.trigger_range \notin allow_trigger_ranges THEN "KeyError"
    ELSE "none"

set_trigger ==
    /\ acq.pc = "set_trigger"
    /\ board' = BoardCalls(board, TriggerCalls(parameters))
    /\ acq' = IF TriggerError(parameters) = "none"
              THEN [acq EXCEPT !.pc = "prepare_acquisition"]
              ELSE Raise(TriggerError(parameters))
    /\ UNCHANGED <<acqFrame, buffers>>


\* a byte count that drops the bits of a partly used byte
BytesPerBuffer_floor(bits, acquired_samples, recordsPerBuffer) ==
    (bits \div 8) * (0 + acquired_samples) * recordsPerBuffer * 2

\* bytesPerSample * samplesPerRecord * recordsPerBuffer * channelCount
BytesPerBuffer(bits, acquired_samples, recordsPerBuffer) ==
    ((bits + 7) \div 8) * (0 + acquired_samples) * recordsPerBuffer * 2

\* a DMABuffer as allocated: zero-filled interleaved samples
DMABuffer == [j \in 1..(2 * SamplesPerChannel) |-> 0]

\* postAsyncBuffer(buff): the buffer joins the buffers the board may fill
postAsyncBuffer(b, buff) ==
    [b EXCEPT !.calls = Append(@, Call("postAsyncBuffer", <<buff>>)),
              !.posted = Append(@, buff)]

\* a posting loop that goes through the list from its last buffer to its first
PostAll_reversed(b, i, bufferCount) ==
    [b EXCEPT
       !.calls = @ \o [k \in 1..(bufferCount - i) |->
                          Call("postAsyncBuffer", <<bufferCount - k>>)],
       !.posted = @ \o [k \in 1..(bufferCount - i) |-> bufferCount - k]]

\* a posting loop that stops one buffer short of the pool
PostAll_short(b, i, bufferCount) ==
    [b EXCEPT
       !.calls = @ \o [k \in 1..(bufferCount - 1 - i) |->
                          Call("postAsyncBuffer", <<i + k - 1>>)],
       !.posted = @ \o [k \in 1..(bufferCount - 1 - i) |-> i + k - 1]]

\* lines 226-227: postAsyncBuffer for each buffer of the list, in order
RECURSIVE PostAll(_, _, _)
PostAll(b, i, bufferCount) ==
    IF i >= bufferCount THEN b
    ELSE PostAll(postAsyncBuffer(b, i), i + 1, bufferCount)

\* the instrument's own computation, for the 12 bits of the ATS9360
_get_bytes_per_buffer(s) ==
    LET preTriggerSamples == 0
        postTriggerSamples == s.acquired_samples
        channelCount == 2
        recordsPerBuffer == records_per_buffer
        bytesPerSample == (bitsPerSample + 7) \div 8
        samplesPerRecord == preTriggerSamples + postTriggerSamples
        bytesPerRecord == bytesPerSample * samplesPerRecord
    IN  bytesPerRecord * recordsPerBuffer * channelCount

prepare_acquisition ==
    /\ acq.pc = "prepare_acquisition"
    /\ LET bufferCount == parameters.nb_buffer_allocated
           recordsPerAcquisition ==
               parameters.records_per_buffer * parameters.buffers_per_acquisition
           armed == BoardCalls(board,
               << Call("getChannelInfo", <<>>),
                  Call("setRecordSize", <<0, parameters.acquired_samples>>),
                  Call("beforeAsyncRead",
                       << parameters.acquired_samples,
                          parameters.records_per_buffer,
                          recordsPerAcquisition >>) >>)
       IN  /\ buffers' = [i \in 0..(bufferCount - 1) |-> DMABuffer]
           /\ board' = PostAll(armed, 0, bufferCount)
           /\ hist' = [hist EXCEPT !.posts_since_read =
                          [i \in 0..(bufferCount - 1) |-> 1]]
           /\ acq' = [acq EXCEPT
                  !.pc = "startCapture",
                  !.bytesPerBuffer =
                      BytesPerBuffer(board.bitsPerSample,
                                     parameters.acquired_samples,
                                     parameters.records_per_buffer)]
    /\ UNCHANGED <<self, raised, main, parameters, queue_data, queue_closed,
                   queue_treatment, treat>>

\* data_acquisition, lines 240-251: the capture is started
startCapture ==
    /\ acq.pc = "startCapture"
    /\ board' = [BoardCalls(board, <<Call("startCapture", <<>>)>>)
                    EXCEPT !.capturing = TRUE]
    /\ acq' = [acq EXCEPT !.pc = "while", !.buffersCompleted = 0,
                          !.bytesTransferred = 0]
    /\ UNCHANGED <<acqFrame, buffers>>

\* len() of the list of buffers (indexed from 0)
len(list) == Cardinality(DOMAIN list)

\* a loop that also runs when the target count is already reached
LoopCondition_inclusive(buffersCompleted, buffersPerAcquisition, measuring) ==
    buffersCompleted <= buffersPerAcquisition /\ measuring

\* the condition of the acquisition loop
LoopCondition(buffersCompleted, buffersPerAcquisition, measuring) ==
    buffersCompleted < buffersPerAcquisition /\ measuring

\* a loop that takes the buffer after the one that is due
BufferIndex_off_by_one(buffersCompleted, bufferCount) ==
    (buffersCompleted + 1) % bufferCount

\* a loop that assumes the default pool of four buffers
BufferIndex_fixed_pool(buffersCompleted, bufferCount) ==
    buffersCompleted % nb_buffer_allocated

\* the index of the buffer an iteration works on
BufferIndex(buffersCompleted, bufferCount) == buffersCompleted % bufferCount

\* line 255-257: the loop condition is evaluated (reading 'measuring'), and
\* the buffer of the iteration selected
while ==
    /\ acq.pc = "while"
    /\ IF LoopCondition(acq.buffersCompleted,
                        parameters.buffers_per_acquisition, parameters.measuring)
       THEN acq' = [acq EXCEPT
                !.pc = "waitAsyncBufferComplete",
                !.buff = BufferIndex(acq.buffersCompleted, len(buffers))]
       ELSE acq' = [acq EXCEPT !.pc = "statistics"]
    /\ UNCHANGED <<acqFrame, board, buffers>>

\* lines 258-261: the wait returns because the board has filled the buffer
waitAsyncBufferComplete ==
    /\ acq.pc = "waitAsyncBufferComplete"
    /\ acq.buff \in board.complete
    /\ board' = [board EXCEPT
           !.calls = Append(@, Call("waitAsyncBufferComplete", <<acq.buff>>)),
           !.complete = @ \ {acq.buff}]
    /\ acq' = [acq EXCEPT !.pc = "put_cha",
                          !.buffersCompleted = @ + 1,
                          !.bytesTransferred = @ + acq.bytesPerBuffer]
    /\ hist' = [hist EXCEPT
           !.waited = Append(@, acq.buff),
           !.waits_after_stop = IF parameters.measuring THEN @ ELSE @ + 1]
    /\ UNCHANGED <<self, raised, main, parameters, queue_data, queue_closed,
                   queue_treatment, treat, buffers>>

\* reading the samples as two contiguous halves instead of interleaved pairs
Slice_contiguous(buffer, start) ==
    [i \in 1..(Len(buffer) \div 2) |-> buffer[start * (Len(buffer) \div 2) + i]]

\* the elements of buffer[start::2]
Slice(buffer, start) ==
    [i \in 1..((Len(buffer) - start + 1) \div 2) |-> buffer[start + 2 * i - 1]]

\* buff.buffer[start::2] is a numpy view: an array without data of its own,
\* whose elements are those of the DMA buffer it was sliced from
View(buff, start) == [base |-> buff, start |-> start, data |-> <<>>]

\* the elements of an array: its own data, or what its base buffer holds now
Contents(array) ==
    IF array.base = None THEN array.data
    ELSE Slice(buffers[array.base], array.start)

\* passing the view on as it is, without copying it
np_asarray(array) == array

\* np.copy: a new array that owns a copy of the elements
np_copy(array) == [base |-> None, start |-> 0, data |-> Contents(array)]

\* line 263
put_cha ==
    /\ acq.pc = "put_cha"
    /\ LET item == np_copy(View(acq.buff, 0))
       IN  /\ queue_data' = [queue_data EXCEPT !.cha = Append(@, item)]
           /\ hist' = [hist EXCEPT !.put_cha = Append(@, Contents(item))]
    /\ acq' = [acq EXCEPT !.pc = "put_chb"]
    /\ UNCHANGED <<self, raised, main, parameters, queue_closed,
                   queue_treatment, treat, board, buffers>>

\* line 264
put_chb ==
    /\ acq.pc = "put_chb"
    /\ LET item == np_copy(View(acq.buff, 1))
       IN  /\ queue_data' = [queue_data EXCEPT !.chb = Append(@, item)]
           /\ hist' = [hist EXCEPT !.put_chb = Append(@, Contents(item)),
                                   !.posts_since_read[acq.buff] = 0]
    /\ acq' = [acq EXCEPT !.pc = "postAsyncBuffer"]
    /\ UNCHANGED <<self, raised, main, parameters, queue_closed,
                   queue_treatment, treat, board, buffers>>

\* a loop that hands back the next buffer of the ring instead of its own
RepostedBuffer_next(buff) == (buff + 1) % parameters.nb_buffer_allocated

\* the buffer the iteration hands back to the board
RepostedBuffer(buff) == buff

\* line 273
repost ==
    /\ acq.pc = "postAsyncBuffer"
    /\ board' = postAsyncBuffer(board, RepostedBuffer(acq.buff))
    /\ hist' = [hist EXCEPT !.posts_since_read[RepostedBuffer(acq.buff)] = @ + 1]
    /\ acq' = [acq EXCEPT !.pc = "while"]
    /\ UNCHANGED <<self, raised, main, parameters, queue_data, queue_closed,
                   queue_treatment, treat, buffers>>

\* lines 278-286: the rates; samplePerSec is assigned only inside the
\* "if transferTime_sec > 0" block, so it is unbound when the time is 0
Statistics(a, p, transferTime_sec) ==
    LET samplesTransferred ==
            (0 + p.acquired_samples) * p.records_per_buffer
                * a.buffersCompleted * 2
    IN  [ written |-> TRUE,
          attempt |-> p.buffers_per_acquisition,
          transferTime_sec |-> transferTime_sec,
          buffers |-> a.buffersCompleted,
          buffersPerSec |->
              IF transferTime_sec > 0
              THEN Rat(a.buffersCompleted, transferTime_sec) ELSE Rat(0, 1),
          records |-> p.records_per_buffer * a.buffersCompleted,
          recordsPerSec |->
              IF transferTime_sec > 0
              THEN Rat(p.records_per_buffer * a.buffersCompleted, transferTime_sec)
              ELSE Rat(0, 1),
          bytes |-> a.bytesTransferred,
          MbytesPerSec |->
              IF transferTime_sec > 0
              THEN RatDiv(Rat(a.bytesTransferred, transferTime_sec),
                          Rat(1024 * 1024, 1))
              ELSE Rat(0, 1),
          samples |-> samplesTransferred,
          MSPerSec |->
              RatDiv(Rat(samplesTransferred, transferTime_sec), Rat(1000000, 1)) ]

\* the local names bound when line 291 formats the last line of the message
SamplePerSecBound(transferTime_sec) == transferTime_sec > 0

\* a data_acquisition that returns without publishing its message
statistics_unpublished ==
    /\ acq.pc = "statistics"
    /\ \E transferTime_sec \in 0..MaxTransferTime :
          acq' = [acq EXCEPT !.pc = "measured_buffers",
                             !.transferTime_sec = transferTime_sec]
    /\ UNCHANGED <<self, raised, main, parameters, queue_data, queue_closed,
                   queue_treatment, treat, board, buffers, hist>>

\* lines 275-295: the transfer time is measured, the statistics formatted and
\* published in parameters['message']; data_acquisition returns
statistics ==
    /\ acq.pc = "statistics"
    /\ \E transferTime_sec \in 0..MaxTransferTime :
          IF SamplePerSecBound(transferTime_sec)
          THEN /\ parameters' = [parameters EXCEPT !.message =
                                    Statistics(acq, parameters, transferTime_sec)]
               /\ acq' = [acq EXCEPT !.pc = "measured_buffers",
                                     !.transferTime_sec = transferTime_sec]
          ELSE /\ acq' = [Raise("UnboundLocalError") EXCEPT
                              !.transferTime_sec = transferTime_sec]
               /\ UNCHANGED parameters
    /\ UNCHANGED <<self, raised, main, queue_data, queue_closed,
                   queue_treatment, treat, board, buffers, hist>>

\* line 334: parameters['measured_buffers'] = <value returned>
set_measured_buffers ==
    /\ acq.pc = "measured_buffers"
    /\ parameters' = [parameters EXCEPT !.measured_buffers = acq.buffersCompleted]
    /\ acq' = [acq EXCEPT !.pc = "abortAsyncRead"]
    /\ UNCHANGED <<self, raised, main, queue_data, queue_closed,
                   queue_treatment, treat, board, buffers, hist>>

\* a get_data that goes on without stopping the transfer
abortAsyncRead_skipped ==
    /\ acq.pc = "abortAsyncRead"
    /\ acq' = [acq EXCEPT !.pc = "safe_acquisition"]
    /\ UNCHANGED <<acqFrame, board, buffers>>

\* line 339
abortAsyncRead ==
    /\ acq.pc = "abortAsyncRead"
    /\ board' = [BoardCalls(board, <<Call("abortAsyncRead", <<>>)>>)
                    EXCEPT !.aborted = TRUE, !.capturing = FALSE]
    /\ acq' = [acq EXCEPT !.pc = "safe_acquisition"]
    /\ UNCHANGED <<acqFrame, buffers>>

\* a producer that also clears 'measuring' when it reports its clean exit
set_safe_acquisition_stops ==
    /\ acq.pc = "safe_acquisition"
    /\ parameters' = [parameters EXCEPT !.safe_acquisition = TRUE,
                                        !.measuring = FALSE]
    /\ acq' = [acq EXCEPT !.pc = "close_cha"]
    /\ UNCHANGED <<self, raised, main, queue_data, queue_closed,
                   queue_treatment, treat, board, buffers, hist>>

\* line 342
set_safe_acquisition ==
    /\ acq.pc = "safe_acquisition"
    /\ parameters' = [parameters EXCEPT !.safe_acquisition = TRUE]
    /\ acq' = [acq EXCEPT !.pc = "close_cha"]
    /\ UNCHANGED <<self, raised, main, queue_data, queue_closed,
                   queue_treatment, treat, board, buffers, hist>>

\* line 345
close_cha ==
    /\ acq.pc = "close_cha"
    /\ queue_closed' = [queue_closed EXCEPT !.cha = @ \cup {"acq"}]
    /\ acq' = [acq EXCEPT !.pc = "close_chb"]
    /\ UNCHANGED <<self, raised, main, parameters, queue_data,
                   queue_treatment, treat, board, buffers, hist>>

\* line 346; get_data returns and the worker process ends
close_chb ==
    /\ acq.pc = "close_chb"
    /\ queue_closed' = [queue_closed EXCEPT !.chb = @ \cup {"acq"}]
    /\ acq' = [acq EXCEPT !.pc = "done"]
    /\ UNCHANGED <<self, raised, main, parameters, queue_data,
                   queue_treatment, treat, board, buffers, hist>>

-----------------------------------------------------------------------------
(* The board (Board capability interface): DMA into the posted buffers, in  *)
(* the order they were posted, and the bounded buffer wait                  *)

\* the samples the board writes into the k-th buffer it fills (k = 0, 1, ...):
\* interleaved a0,b0,a1,b1,..., every sample of the run distinct
Payload(k) ==
    [j \in 1..(2 * SamplesPerChannel) |-> k * 2 * SamplesPerChannel + j]

\* the board fills the oldest posted buffer
DMAFill ==
    /\ board.capturing
    /\ board.posted # <<>>
    /\ board.filled < parameters.buffers_per_acquisition
    /\ LET buff == Head(board.posted)
       IN  /\ buffers' = [buffers EXCEPT ![buff] = Payload(board.filled)]
           /\ board' = [board EXCEPT !.posted = Tail(@),
                                     !.complete = @ \cup {buff},
                                     !.filled = @ + 1]
           /\ hist' = [hist EXCEPT !.completed = Append(@, Payload(board.filled))]
    /\ UNCHANGED <<self, raised, main, parameters, queue_data, queue_closed,
                   queue_treatment, acq, treat>>

\* line 258 when the buffer is not filled within timeout_ms: the call raises
waitAsyncBufferCompleteTimeout ==
    /\ acq.pc = "waitAsyncBufferComplete"
    /\ acq.buff \notin board.complete
    /\ board' = BoardCalls(board,
                           <<Call("waitAsyncBufferComplete", <<acq.buff>>)>>)
    /\ acq' = Raise("ApiTimeout")
    /\ hist' = [hist EXCEPT
           !.timed_out = TRUE,
           !.waits_after_stop = IF parameters.measuring THEN @ ELSE @ + 1]
    /\ UNCHANGED <<self, raised, main, parameters, queue_data, queue_closed,
                   queue_treatment, treat, buffers>>

-----------------------------------------------------------------------------
(* The two treatment workers (processor.treat_data): each takes the items   *)
(* of its channel queue and, once the producer has closed the queue and it  *)
(* is drained, sets its slot of safe_treatment                              *)

Channels == {"cha", "chb"}

Slot(ch) == IF ch = "cha" THEN 1 ELSE 2

treat_data_get(ch) ==
    /\ treat[ch] = "run"
    /\ queue_data[ch] # <<>>
    /\ queue_data' = [queue_data EXCEPT ![ch] = Tail(@)]
    /\ queue_treatment' = [queue_treatment EXCEPT
                              ![ch] = Append(@, Head(queue_data[ch]))]
    /\ UNCHANGED <<self, raised, main, parameters, queue_closed, acq, treat,
                   board, buffers, hist>>

treat_data_exit(ch) ==
    /\ treat[ch] = "run"
    /\ queue_data[ch] = <<>>
    /\ "acq" \in queue_closed[ch]
    /\ parameters' = [parameters EXCEPT !.safe_treatment[Slot(ch)] = TRUE]
    /\ treat' = [treat EXCEPT ![ch] = "done"]
    /\ UNCHANGED <<self, raised, main, queue_data, queue_closed,
                   queue_treatment, acq, board, buffers, hist>>

-----------------------------------------------------------------------------
(* ATS9360_NPT.measurement_close, run by the issuing context                *)

\* all(parameters['safe_treatment'])
all(flags) == \A i \in 1..Len(flags) : flags[i]

\* the condition of the wait loop of line 364
WaitCondition(p) == ~p.safe_acquisition /\ ~all(p.safe_treatment)

\* line 360: the stop request; the method may be called again on an
\* acquisition it has already closed
measurement_close(transfert_info) ==
    /\ main.pc \in {"measuring", "closed"}
    /\ hist.closes < MaxCloses
    /\ parameters' = [parameters EXCEPT !.measuring = FALSE]
    /\ main' = [main EXCEPT !.pc = "close_wait", !.transfert_info = transfert_info]
    /\ hist' = [hist EXCEPT
           !.stop_at = IF hist.closes = 0 THEN acq.buffersCompleted ELSE @,
           !.closes = @ + 1]
    /\ raised' = "none"
    /\ UNCHANGED <<self, queue_data, queue_closed, queue_treatment, acq, treat,
                   board, buffers>>

\* lines 364-366: the busy wait is left when its condition is found false
close_wait ==
    /\ main.pc = "close_wait"
    /\ ~WaitCondition(parameters)
    /\ main' = [main EXCEPT !.pc = "terminate_acquire"]
    /\ UNCHANGED <<self, raised, runVars>>

\* Process.terminate(): a worker that is still running is killed
Terminated(pc) == IF pc \in {"done", "failed", "none"} THEN pc ELSE "terminated"

\* lines 370-372
terminate_acquire ==
    /\ main.pc = "terminate_acquire"
    /\ acq' = [acq EXCEPT !.pc = Terminated(acq.pc)]
    /\ hist' = [hist EXCEPT !.terminated = @ \cup {"acq"}]
    /\ main' = [main EXCEPT !.pc = "terminate_cha"]
    /\ UNCHANGED <<self, raised, parameters, queue_data, queue_closed,
                   queue_treatment, treat, board, buffers>>

\* line 373
terminate_cha ==
    /\ main.pc = "terminate_cha"
    /\ treat' = [treat EXCEPT !.cha = Terminated(treat.cha)]
    /\ hist' = [hist EXCEPT !.terminated = @ \cup {"cha"}]
    /\ main' = [main EXCEPT !.pc = "terminate_chb"]
    /\ UNCHANGED <<self, raised, parameters, queue_data, queue_closed,
                   queue_treatment, acq, board, buffers>>

\* line 374
terminate_chb ==
    /\ main.pc = "terminate_chb"
    /\ treat' = [treat EXCEPT !.chb = Terminated(treat.chb)]
    /\ hist' = [hist EXCEPT !.terminated = @ \cup {"chb"}]
    /\ main' = [main EXCEPT !.pc = "return"]
    /\ UNCHANGED <<self, raised, parameters, queue_data, queue_closed,
                   queue_treatment, acq, board, buffers>>

\* lines 377-381: the count of fetched buffers is reset and the percentage
\* read; then reading parameters['message'] raises KeyError when the producer
\* has not written the key
close_return ==
    /\ main.pc = "return"
    /\ self' = [self EXCEPT !.aquired_buffer = 0]
    /\ LET polled == get_completed_acquisition(main, self')
       IN  IF polled.raised # "none"
           THEN /\ main' = [polled.main EXCEPT !.pc = "closed"]
                /\ raised' = polled.raised
                /\ UNCHANGED hist
           ELSE /\ hist' = Polled(hist, acq, self)
                /\ IF main.transfert_info
                   THEN IF parameters.message.written
                        THEN /\ main' = [polled.main EXCEPT
                                            !.pc = "closed",
                                            !.result = parameters.message]
                             /\ raised' = "none"
                        ELSE /\ main' = [polled.main EXCEPT !.pc = "closed"]
                             /\ raised' = "KeyError"
                   ELSE /\ main' = [polled.main EXCEPT !.pc = "closed"]
                        /\ raised' = "none"
    /\ UNCHANGED <<parameters, queue_data, queue_closed, queue_treatment, acq,
                   treat, board, buffers>>

\* measurement, lines 340-341: one more buffer is counted as fetched and the
\* percentage read, before the two treated-data queues are read
measurement ==
    /\ main.pc = "measuring"
    /\ self.aquired_buffer <= MaxBuffers
    /\ self' = [self EXCEPT !.aquired_buffer = @ + 1]
    /\ LET polled == get_completed_acquisition(main, self')
       IN  IF polled.raised # "none"
           THEN /\ main' = polled.main
                /\ raised' = polled.raised
                /\ UNCHANGED hist
           ELSE /\ main' = [polled.main EXCEPT !.pc = "get_cha"]
                /\ raised' = "none"
                /\ hist' = Polled(hist, acq, self)
    /\ UNCHANGED <<parameters, queue_data, queue_closed, queue_treatment, acq,
                   treat, board, buffers>>

\* line 342: queue_treatment_cha.get() blocks until an item is there
measurement_get_cha ==
    /\ main.pc = "get_cha"
    /\ queue_treatment.cha # <<>>
    /\ queue_treatment' = [queue_treatment EXCEPT !.cha = Tail(@)]
    /\ main' = [main EXCEPT !.pc = "get_chb"]
    /\ UNCHANGED <<self, raised, parameters, queue_data, queue_closed, acq,
                   treat, board, buffers, hist>>

\* line 342: queue_treatment_chb.get() blocks until an item is there; the
\* pair is returned
measurement_get_chb ==
    /\ main.pc = "get_chb"
    /\ queue_treatment.chb # <<>>
    /\ queue_treatment' = [queue_treatment EXCEPT !.chb = Tail(@)]
    /\ main' = [main EXCEPT !.pc = "measuring"]
    /\ UNCHANGED <<self, raised, parameters, queue_data, queue_closed, acq,
                   treat, board, buffers, hist>>

-----------------------------------------------------------------------------
(* Inputs of the calls *)

\* int(number_of_averaging): multiples of 100 (negative, zero, positive) and
\* a value that is not a multiple
AveragingInputs == {-100, 0, 200, 250, 100 * MaxBuffers}

SamplerateInputs == {Rat(1, 2), Rat(300, 1), Rat(2000, 1)}

ClockSourceInputs == {"Internal", "EXTERNAL", "pxi"}

ClockEdgeInputs == {"Falling", "both"}

TriggerSlopeInputs == {"Negative", "rising"}

\* mV
TriggerRangeInputs == {1000, 3000, 0}

\* mV
TriggerLevelInputs == {-3000, 0, 2000}

\* ns: 250 ns is a whole number of samples at 300 and 1800 MS/s, 1 ns is not
TriggerDelayInputs == {1, 250}

\* ns
AcquisitionTimeInputs == {Rat(100, 1), Rat(1425, 10), Rat(200000, 1)}

-----------------------------------------------------------------------------
(* Specifications *)

Producer ==
    \/ Board \/ set_clock \/ set_input_control \/ set_trigger \/ prepare_acquisition
    \/ startCapture \/ while \/ waitAsyncBufferComplete
    \/ waitAsyncBufferCompleteTimeout \/ put_cha \/ put_chb \/ repost
    \/ statistics \/ set_measured_buffers \/ abortAsyncRead
    \/ set_safe_acquisition \/ close_cha \/ close_chb

\* the board of an acquisition started by measurement_initialization: it is
\* triggered MaxBuffers times at most
Triggered == board.filled < MaxBuffers /\ DMAFill

Consumers ==
    \E ch \in Channels : treat_data_get(ch) \/ treat_data_exit(ch)

\* measurement_initialization from its call to its return
Initialization ==
    \/ measurement_initialization
    \/ start_treat_data_cha \/ start_treat_data_chb
    \/ close_data_cha \/ close_data_chb \/ reset_aquired_buffer

\* measurement() from its call to its return
Measurement == measurement \/ measurement_get_cha \/ measurement_get_chb

\* measurement_close once it is called: the wait loop and what follows it
Closing ==
    \/ close_wait \/ terminate_acquire \/ terminate_cha \/ terminate_chb
    \/ close_return

\* the acquisition methods of the instance, run by the issuing context
Coordinator ==
    \/ Initialization
    \/ Measurement
    \/ \E transfert_info \in BOOLEAN : measurement_close(transfert_info)
    \/ Closing

\* the calls the issuing context makes on the parameters of the instance:
\* the averaging is chosen before the first acquisition, the progress is
\* read at any time
Parameters ==
    \/ main.pc = "idle" /\ \E n \in AveragingInputs : do_set_averaging(n)
    \/ call_get_completed_acquisition
    \/ call_get_all

\* acquisitions under the configuration of __init__ with the averaging
\* chosen by the issuing context
Next == Producer \/ Triggered \/ Consumers \/ Coordinator \/ Parameters

Spec == Init /\ [][Next]_vars

\* one acquisition of one or two buffers, from the choice of the averaging to
\* the teardown
NextJoin ==
    \/ main.pc = "idle" /\ \E n \in {100, 200} : do_set_averaging(n)
    \/ main.pc = "idle" /\ measurement_initialization
    \/ start_treat_data_cha \/ start_treat_data_chb
    \/ close_data_cha \/ close_data_chb \/ reset_aquired_buffer
    \/ Measurement
    \/ \E transfert_info \in BOOLEAN : measurement_close(transfert_info)
    \/ Closing
    \/ Producer \/ Triggered \/ Consumers

\* the workers are separate processes and the board runs on its own: each
\* keeps taking steps while it can, and so does the issuing context while it
\* is inside a method
FairSpec ==
    /\ Init /\ [][NextJoin]_vars
    /\ WF_vars(Producer) /\ WF_vars(Triggered)
    /\ WF_vars(~Callable /\ Coordinator)
    /\ \A ch \in Channels : WF_vars(treat_data_get(ch) \/ treat_data_exit(ch))

\* the configuration calls followed by the start of an acquisition, up to the
\* point where the board is armed
NextConfig ==
    \/ /\ main.pc = "idle"
       /\ \/ \E n \in {200, 250} : do_set_averaging(n)
          \/ \E t \in AcquisitionTimeInputs : do_set_acquisition_time(t)
          \/ \E d \in TriggerDelayInputs : do_set_trigger_delay(d)
          \/ \E l \in TriggerLevelInputs : do_set_trigger_level(l)
          \/ \E r \in TriggerRangeInputs : do_set_trigger_range(r)
          \/ \E sl \in TriggerSlopeInputs : do_set_trigger_slope(sl)
          \/ \E e \in ClockEdgeInputs : do_set_clock_edge(e)
          \/ \E sr \in SamplerateInputs : do_set_samplerate(sr)
          \/ \E cs \in ClockSourceInputs : do_set_clock_source(cs)
    \/ main.pc = "idle" /\ measurement_initialization
    \/ Board \/ set_clock \/ set_input_control \/ set_trigger
    \/ prepare_acquisition

SpecConfig == Init /\ [][NextConfig]_vars

\* the sample widths getChannelInfo is made to report: whole bytes, the 12
\* bits of the ATS9360 and a width one bit over a byte
BitsPerSampleInputs == {8, 9, 12, 16}

\* get_data run on its own, to its end: the worker is started with a shared
\* dict as _get_parameters builds it, for each pool size and each target
\* count; no stop is requested and the channel queues are not drained
InitAcquisition ==
    /\ \E n \in 0..MaxTarget :
          self = [ATS9360_NPT EXCEPT !.buffers_per_acquisition = n]
    /\ \E bufferCount \in 1..MaxPoolSize :
          parameters = [_get_parameters(self) EXCEPT
                           !.nb_buffer_allocated = bufferCount]
    /\ raised = "none"
    /\ main = [pc |-> "measuring", transfert_info |-> FALSE, result |-> NoMessage,
               completed_acquisition |-> NoPercentage]
    /\ queue_data = [cha |-> <<>>, chb |-> <<>>]
    /\ queue_closed = [cha |-> {"main"}, chb |-> {"main"}]
    /\ queue_treatment = [cha |-> <<>>, chb |-> <<>>]
    /\ acq = [NoWorker EXCEPT !.pc = "Board"]
    /\ treat = [cha |-> "run", chb |-> "run"]
    /\ \E bits \in BitsPerSampleInputs :
          board = [NoBoard EXCEPT !.bitsPerSample = bits]
    /\ buffers = <<>>
    /\ hist = NoHistory

NextAcquisition == Producer \/ DMAFill

\* the trigger levels (mV) tried for a range: evenly spaced ones, 0 among
\* them, and the two levels 1 mV inside the range
TriggerLevelsInside(trigger_range) ==
    { (trigger_range * k) \div MaxLevelSteps :
          k \in (1 - MaxLevelSteps)..(MaxLevelSteps - 1) }
        \cup {1 - trigger_range, trigger_range - 1}

\* the configuration stage of get_data run for each legal trigger range and
\* each trigger level inside it
InitTrigger ==
    /\ \E r \in allow_trigger_ranges :
          \E l \in TriggerLevelsInside(r) :
              self = [ATS9360_NPT EXCEPT !.trigger_range = r,
                                         !.trigger_level = l,
                                         !.buffers_per_acquisition = 1]
    /\ parameters = _get_parameters(self)
    /\ raised = "none"
    /\ main = [pc |-> "measuring", transfert_info |-> FALSE, result |-> NoMessage,
               completed_acquisition |-> NoPercentage]
    /\ queue_data = [cha |-> <<>>, chb |-> <<>>]
    /\ queue_closed = [cha |-> {"main"}, chb |-> {"main"}]
    /\ queue_treatment = [cha |-> <<>>, chb |-> <<>>]
    /\ acq = [NoWorker EXCEPT !.pc = "set_clock"]
    /\ treat = [cha |-> "run", chb |-> "run"]
    /\ board = NoBoard
    /\ buffers = <<>>
    /\ hist = NoHistory

NextTrigger == set_clock \/ set_input_control \/ set_trigger

SpecTrigger == InitTrigger /\ [][NextTrigger]_vars

\* acquisitions started under a clock configuration that may be one get_data
\* rejects (an internal clock with a rate set for the external one), and
\* closed once or twice; every process keeps taking steps while it can
NextTeardown ==
    \/ /\ main.pc = "idle"
       /\ \/ do_set_averaging(100)
          \/ do_set_samplerate(Rat(300, 1))
          \/ \E cs \in ClockSourceInputs : do_set_clock_source(cs)
    \/ main.pc = "idle" /\ measurement_initialization
    \/ start_treat_data_cha \/ start_treat_data_chb
    \/ close_data_cha \/ close_data_chb \/ reset_aquired_buffer
    \/ Measurement
    \/ \E transfert_info \in BOOLEAN : measurement_close(transfert_info)
    \/ Closing
    \/ Producer \/ Triggered \/ Consumers

SpecTeardown ==
    /\ Init /\ [][NextTeardown]_vars
    /\ WF_vars(Producer) /\ WF_vars(Triggered)
    /\ WF_vars(~Callable /\ Coordinator)
    /\ \A ch \in Channels : WF_vars(treat_data_get(ch) \/ treat_data_exit(ch))

SpecAcquisition == InitAcquisition /\ [][NextAcquisition]_vars

-----------------------------------------------------------------------------
(* Properties *)

AllSafe ==
    /\ parameters.safe_acquisition
    /\ parameters.safe_treatment[1]
    /\ parameters.safe_treatment[2]

\* C1: measurement_close leaves its wait loop, and so terminates the workers,
\* only when safe_acquisition and both safe_treatment flags are true.
C1_JoinWaitsForAllFlags ==
    main.pc \in {"terminate_acquire", "terminate_cha", "terminate_chb",
                 "return", "closed"}
        => AllSafe

ProducerEnded == acq.pc \in {"done", "failed", "terminated"}

\* C2: a stop requested when exactly k < buffers_per_acquisition buffers are
\* completed, with no buffer wait timing out, ends the producer with
\* measured_buffers in {k, k+1}, safe_acquisition true and both channel
\* queues closed by the producer.
C2_StopMidRun ==
    ( /\ ProducerEnded
      /\ hist.stop_at # None
      /\ hist.stop_at < parameters.buffers_per_acquisition
      /\ ~hist.timed_out )
        => /\ parameters.measured_buffers \in {hist.stop_at, hist.stop_at + 1}
           /\ parameters.safe_acquisition
           /\ "acq" \in queue_closed.cha
           /\ "acq" \in queue_closed.chb

\* the producer is inside an iteration, between the wait and the two puts
InIteration == acq.pc \in {"put_cha", "put_chb"}

\* C3: the transfer is loss-free: the i-th item of each channel queue is the
\* copy of that channel's samples of the i-th buffer the board completed, and
\* at every iteration boundary and at producer exit both queues have received
\* as many items as buffers were completed.
C3_LossFree ==
    /\ \A i \in 1..Len(hist.put_cha) :
          /\ i <= Len(hist.completed)
          /\ hist.put_cha[i] = Slice(hist.completed[i], 0)
    /\ \A i \in 1..Len(hist.put_chb) :
          /\ i <= Len(hist.completed)
          /\ hist.put_chb[i] = Slice(hist.completed[i], 1)
    /\ ~InIteration =>
          /\ Len(hist.put_cha) = acq.buffersCompleted
          /\ Len(hist.put_chb) = acq.buffersCompleted

\* a stop was requested mid-run, after buffers were pushed and before the
\* target, and the producer has returned
C3_Witness ==
    /\ acq.pc = "done"
    /\ hist.stop_at >= 1
    /\ hist.stop_at < parameters.buffers_per_acquisition
    /\ Len(hist.put_cha) >= 2
    /\ Len(hist.put_chb) = Len(hist.put_cha)

\* number of times buff is in the board's list of posted buffers
RECURSIVE Count(_, _)
Count(seq, x) ==
    IF seq = <<>> THEN 0
    ELSE (IF Head(seq) = x THEN 1 ELSE 0) + Count(Tail(seq), x)

\* the buffer is with the board: posted and not yet waited for
BoardOwns(buff) ==
    Count(board.posted, buff) + (IF buff \in board.complete THEN 1 ELSE 0)

\* the buffer is with the loop: its wait has returned, it is not re-posted yet
LoopOwns(buff) ==
    IF acq.pc \in {"put_cha", "put_chb", "postAsyncBuffer"} /\ acq.buff = buff
    THEN 1 ELSE 0

\* C4: every buffer of the pool is owned by exactly one of the board and the
\* loop; the loop reads only the buffer whose wait returned, before it
\* re-posts it, and exactly one post separates two reads of a buffer.
C4_ExclusiveOwnership ==
    /\ \A buff \in DOMAIN buffers : BoardOwns(buff) + LoopOwns(buff) = 1
    /\ InIteration =>
          /\ BoardOwns(acq.buff) = 0
          /\ hist.waited # <<>>
          /\ hist.waited[Len(hist.waited)] = acq.buff
          /\ hist.posts_since_read[acq.buff] = 1

\* a buffer of the ring is being read for the second time
C4_Witness ==
    /\ acq.pc = "put_chb"
    /\ parameters.nb_buffer_allocated >= 2
    /\ acq.buffersCompleted > parameters.nb_buffer_allocated

\* data_acquisition has started the capture (its counters are initialised)
CaptureStarted ==
    \E i \in 1..Len(board.calls) : board.calls[i].op = "startCapture"

AfterLoop ==
    acq.pc \in {"statistics", "measured_buffers", "abortAsyncRead",
                "safe_acquisition", "close_cha", "close_chb", "done"}

\* C5: an iteration starts only with buffersCompleted below the target and
\* 'measuring' read true; buffersCompleted never exceeds the target; without
\* a stop request the loop ends with buffersCompleted equal to the target.
C5_LoopGuard ==
    /\ [][ (acq.pc = "while" /\ acq'.pc = "waitAsyncBufferComplete")
              => /\ acq.buffersCompleted < parameters.buffers_per_acquisition
                 /\ parameters.measuring ]_vars
    /\ [](CaptureStarted =>
              acq.buffersCompleted <= parameters.buffers_per_acquisition)
    /\ []((AfterLoop /\ parameters.measuring)
              => acq.buffersCompleted = parameters.buffers_per_acquisition)

\* the loop has ended on its target count, no stop having been requested
C5_Witness ==
    /\ acq.pc = "statistics"
    /\ parameters.measuring
    /\ acq.buffersCompleted = parameters.buffers_per_acquisition
    /\ acq.buffersCompleted > nb_buffer_allocated

\* C6: whenever safe_acquisition is true the transfers have been aborted and
\* message and measured_buffers are written; the producer closes a channel
\* queue only after it has set safe_acquisition.
C6_PublicationOrder ==
    /\ parameters.safe_acquisition =>
          /\ board.aborted
          /\ parameters.message.written
          /\ parameters.measured_buffers # None
    /\ ("acq" \in queue_closed.cha \/ "acq" \in queue_closed.chb)
          => parameters.safe_acquisition

\* the producer has set safe_acquisition and closed both queues
C6_Witness ==
    /\ parameters.safe_acquisition
    /\ "acq" \in queue_closed.cha
    /\ "acq" \in queue_closed.chb

\* C7: when measurement_close(transfert_info=True) reaches its return
\* statement, the producer has written 'message', with the buffers completed,
\* the bytes transferred and the throughput.
C7_ClosedReportsStatistics ==
    (main.pc \in {"return", "closed"} /\ main.transfert_info) =>
        /\ parameters.message.written
        /\ parameters.message.buffers = acq.buffersCompleted
        /\ parameters.message.bytes = acq.buffersCompleted * acq.bytesPerBuffer
        /\ parameters.message.buffersPerSec =
               Rat(acq.buffersCompleted, acq.transferTime_sec)
        /\ (main.pc = "closed" /\ raised # "ZeroDivisionError") =>
               (raised = "none" /\ main.result = parameters.message)

\* measurement_close(True) returns the message of an acquisition that a stop
\* request ended early
C7_Witness ==
    /\ main.pc = "closed"
    /\ main.transfert_info
    /\ main.result.written
    /\ main.result.buffers >= 1
    /\ main.result.buffers < main.result.attempt

\* C8: once the stop is requested the join converges: the wait loop of
\* measurement_close is eventually left, the producer having started at most
\* one more buffer wait (each wait ending by completion or by timeout).
C8_JoinConverges ==
    /\ [](hist.waits_after_stop <= 1)
    /\ (main.pc = "close_wait") ~> (main.pc # "close_wait")

\* C9: with a measured transfer time of 0 data_acquisition still completes
\* without error, publishes the message with every rate reported as 0, and
\* returns the number of completed buffers.
C9_ZeroTimeGuarded ==
    acq.transferTime_sec = 0 =>
        /\ acq.error = "none"
        /\ parameters.message.written
        /\ parameters.message.buffersPerSec = Rat(0, 1)
        /\ parameters.message.recordsPerSec = Rat(0, 1)
        /\ parameters.message.MbytesPerSec = Rat(0, 1)
        /\ parameters.message.MSPerSec = Rat(0, 1)

\* C10: when get_data fails on an illegal configuration value, no Board call
\* has been issued in that run.
C10_NoPartialProgramming ==
    (acq.pc = "failed"
        /\ acq.error \in {"KeyError", "ValueError", "ZeroDivisionError"})
        => board.calls = <<>>

\* C11: after any sequence of do_set_trigger_level and do_set_trigger_range
\* calls, accepted or rejected, the stored trigger level lies strictly inside
\* the stored range: -trigger_range < trigger_level < trigger_range.
C11_LevelInsideRange ==
    /\ -self.trigger_range < self.trigger_level
    /\ self.trigger_level < self.trigger_range

\* C12: after any sequence of do_set_clock_source and do_set_samplerate calls,
\* accepted or rejected, the stored sample rate is legal for the stored clock
\* source: a key of the rate table when internal, within 300..1800 MS/s when
\* external.
C12_RateLegalForSource ==
    /\ self.clock_source = "internal" => self.samplerate \in allow_samplerates
    /\ self.clock_source = "external" =>
          /\ RatLE(Rat(300, 1), self.samplerate)
          /\ RatLE(self.samplerate, Rat(1800, 1))


\* C13: buffers_per_acquisition is a positive integer in every reachable
\* configuration: after any sequence of do_set_averaging calls with integer
\* arguments, accepted or rejected, buffers_per_acquisition >= 1.
C13_PositiveTarget == self.buffers_per_acquisition >= 1

\* C14: acquired_samples is a positive multiple of 128 in every reachable
\* configuration: after any sequence of do_set_acquisition_time and
\* do_set_samplerate calls, accepted or rejected, acquired_samples >= 128 and
\* acquired_samples mod 128 = 0.
C14_SamplesMultipleOf128 ==
    /\ self.acquired_samples >= 128
    /\ self.acquired_samples % 128 = 0

\* an accepted do_set_acquisition_time has rounded 256.5 samples down to the
\* smallest count, and a do_set_samplerate has then stored a new rate and
\* raised when it set the acquisition time again
C14_Witness ==
    /\ self.acquired_samples = 256
    /\ self.samplerate = Rat(300, 1)
    /\ raised = "ValueError"

\* the positions of the calls of an operation in the board's call record
CallsOf(op) == {i \in 1..Len(board.calls) : board.calls[i].op = op}

\* C15: when startCapture is issued the board has been armed
\* (beforeAsyncRead) and, after that, every buffer of the pool has been
\* posted exactly once: never fewer than pool-size buffers are posted.
C15_PostedBeforeCapture ==
    \A c \in CallsOf("startCapture") :
        /\ \E a \in CallsOf("beforeAsyncRead") :
              /\ a < c
              /\ \A p \in CallsOf("postAsyncBuffer") : p < c => a < p
        /\ \A buff \in 0..(parameters.nb_buffer_allocated - 1) :
              Cardinality({p \in CallsOf("postAsyncBuffer") :
                              p < c /\ board.calls[p].args = <<buff>>}) = 1
        /\ Cardinality({p \in CallsOf("postAsyncBuffer") : p < c})
               = parameters.nb_buffer_allocated

\* the capture has been started on a pool of several buffers
C15_Witness ==
    /\ CallsOf("startCapture") # {}
    /\ parameters.nb_buffer_allocated > 1

\* the ring sequence of the spec for a pool of 4: completedCount = 0..7
RingOf4 == <<0, 1, 2, 3, 0, 1, 2, 3>>

\* C17: the buffer an iteration works on is the one at index completedCount
\* mod poolSize, for every pool size >= 1 and every target count; for a pool
\* of 4 the buffers of the first eight iterations are 0,1,2,3,0,1,2,3.
C17_RingIndex ==
    /\ acq.pc = "waitAsyncBufferComplete" =>
          acq.buff = acq.buffersCompleted % parameters.nb_buffer_allocated
    /\ \A i \in 1..Len(hist.waited) :
          hist.waited[i] = (i - 1) % parameters.nb_buffer_allocated
    /\ parameters.nb_buffer_allocated = 4 =>
          \A i \in 1..Len(hist.waited) :
              i <= Len(RingOf4) => hist.waited[i] = RingOf4[i]

\* a pool of 4 has gone twice around the ring
C17_Witness ==
    /\ parameters.nb_buffer_allocated = 4
    /\ Len(hist.waited) = Len(RingOf4)

\* the elements of an interleaved buffer at the even (parity 0) or odd
\* (parity 1) positions, counted from 0, in their order
EveryOther(buffer, parity) ==
    [j \in 1..SamplesPerChannel |-> buffer[2 * (j - 1) + parity + 1]]

\* C18: for the i-th completed buffer [a0,b0,a1,b1,...] the i-th item of
\* channel queue A holds [a0,a1,...] and the i-th item of channel queue B
\* holds [b0,b1,...], in order, and keeps holding them when the buffer is
\* re-posted and refilled.
C18_Deinterleave ==
    /\ \A i \in 1..Len(queue_data.cha) :
          Contents(queue_data.cha[i]) = EveryOther(hist.completed[i], 0)
    /\ \A i \in 1..Len(queue_data.chb) :
          Contents(queue_data.chb[i]) = EveryOther(hist.completed[i], 1)

\* buffer 0 has been refilled by the board while the item copied from its
\* first filling is still in channel queue B
C18_Witness ==
    /\ Len(queue_data.chb) >= 1
    /\ Len(hist.completed) > parameters.nb_buffer_allocated
    /\ buffers[0] # hist.completed[1]
    /\ Contents(queue_data.chb[1]) = EveryOther(hist.completed[1], 1)

\* the operation has been called, and first called before position i
CalledBefore(op, i) == \E j \in CallsOf(op) : j < i

\* C16: in every run of set_trigger, also one that fails part-way,
\* setExternalTrigger is called only after setTriggerOperation, and
\* setTriggerDelay, setTriggerTimeOut(0) and configureAuxIO follow both, in
\* that order; a run that returns has made each of the five calls once.
C16_TriggerCallOrder ==
    /\ \A i \in CallsOf("setExternalTrigger") :
          CalledBefore("setTriggerOperation", i)
    /\ \A i \in CallsOf("setTriggerDelay") :
          /\ CalledBefore("setTriggerOperation", i)
          /\ CalledBefore("setExternalTrigger", i)
    /\ \A i \in CallsOf("setTriggerTimeOut") :
          /\ CalledBefore("setTriggerDelay", i)
          /\ board.calls[i].args = <<0>>
    /\ \A i \in CallsOf("configureAuxIO") :
          CalledBefore("setTriggerTimeOut", i)
    /\ acq.pc = "prepare_acquisition" =>
          \A op \in {"setTriggerOperation", "setExternalTrigger",
                     "setTriggerDelay", "setTriggerTimeOut", "configureAuxIO"} :
              Cardinality(CallsOf(op)) = 1

\* set_trigger has run to its end with a trigger configuration set by the
\* issuing context
C16_Witness ==
    /\ acq.pc = "prepare_acquisition"
    /\ CallsOf("configureAuxIO") # {}
    /\ parameters.trigger_range = 1000
    /\ parameters.trigger_slope = "negative"

\* the delay codes programmed so far, each with the delay in samples it stands
\* for (the delay and the rate are those of the shared dict)
ProgrammedDelays ==
    { [code |-> board.calls[i].args[1],
       samples |-> TriggerDelaySamples(parameters.trigger_delay,
                                       parameters.samplerate)] :
          i \in CallsOf("setTriggerDelay") }

\* C20 (as stated): the trigger delay code programmed by set_trigger equals
\* round(delay_seconds * sampleRate_Hz + 0.5), for every non-negative delay
\* and every legal rate, also when the product is an exact integer.
C20_DelayCodeRoundsUp ==
    \A d \in ProgrammedDelays :
        d.code = round(RatAdd(d.samples, Rat(1, 2)))

\* C20 (amended): the trigger delay code is the delay in samples rounded to
\* the nearest integer: code - 1/2 <= delay_seconds * sampleRate_Hz
\* <= code + 1/2; an exact integer product k is programmed as k.
C20_DelayCodeNearest ==
    \A d \in ProgrammedDelays :
        /\ RatLE(Rat(2 * d.code - 1, 2), d.samples)
        /\ RatLE(d.samples, Rat(2 * d.code + 1, 2))
        /\ d.samples.d = 1 => d.code = d.samples.n

\* a delay that is a whole number of samples (250 ns at 1800 MS/s) has been
\* programmed
C20_Witness ==
    \E d \in ProgrammedDelays : d.samples = Rat(450, 1) /\ d.code = 450

\* C19: the percentage returned by get_completed_acquisition is
\* 100 * completedBuffers / targetBuffers, completedBuffers being the number
\* of buffers the acquisition loop has completed when it is read and
\* targetBuffers buffers_per_acquisition.
C19_ProgressPercentage ==
    main.completed_acquisition.returned =>
        main.completed_acquisition.percentage
            = Rat(100 * hist.polled_at, hist.polled_target)

\* the trigger level codes programmed so far
ProgrammedLevelCodes ==
    {board.calls[i].args[2] : i \in CallsOf("setTriggerOperation")}

\* C21: for every range in {5, 2.5, 1} V and every level strictly inside the
\* range, the trigger level code programmed by set_trigger is an integer in
\* [1, 255], and the level 0 gives exactly 128.
C21_LevelCodeRange ==
    \A code \in ProgrammedLevelCodes :
        /\ code \in 1..255
        /\ parameters.trigger_level = 0 => code = 128

\* the level 1 mV below the top of the 2.5 V range has been programmed, as
\* the highest code
C21_Witness ==
    /\ parameters.trigger_range = 2500
    /\ parameters.trigger_level = 2499
    /\ ProgrammedLevelCodes = {255}

\* what the claim C22 says of one call do_set_acquisition_time(t) made on the
\* instance s and leaving the instance s2 and the exception r
AcquisitionTimeRule(s, t, s2, r) ==
    LET samples == round(RatMul(RatMul(s.samplerate, t), Rat(1, 1000)))
    IN  IF RatLT(RatMul(RatDiv(Rat(256, 1), s.samplerate), Rat(1000, 1)), t)
        THEN /\ r = "none"
             /\ s2.acquired_samples % 128 = 0
             /\ 2 * Abs(s2.acquired_samples - samples) <= 128
             /\ 2 * Abs(s2.acquired_samples - samples) = 128 =>
                    s2.acquired_samples > samples
             /\ RatMul(s2.acquisition_time, s.samplerate)
                    = Rat(s2.acquired_samples * 1000, 1)
             /\ s2 = [s EXCEPT !.acquired_samples = s2.acquired_samples,
                               !.acquisition_time = s2.acquisition_time]
        ELSE r = "ValueError" /\ s2 = s

\* C22: do_set_acquisition_time(t) is accepted exactly when
\* t > 256 / samplerate * 1000; when accepted it stores the multiple of 128
\* nearest to round(samplerate * t * 1e-3), a tie going away from zero, and
\* acquisition_time = acquired_samples / samplerate * 1000; when rejected it
\* raises and changes nothing.
C22_AcquisitionTimeRule ==
    [][ \A t \in AcquisitionTimeInputs :
            do_set_acquisition_time(t) => AcquisitionTimeRule(self, t, self', raised')
      ]_vars

\* 200000 ns at 1800 MS/s, 360000 samples, has been stored as 360064 samples
C22_Witness ==
    /\ self.samplerate = Rat(1800, 1)
    /\ self.acquired_samples = 360064
    /\ raised = "none"

\* C23: do_set_averaging(n) rejects every n that is not an exact multiple of
\* 100 and leaves buffers_per_acquisition unchanged; for every accepted n it
\* stores n / records_per_buffer as an exact integer, so that do_get_averaging
\* then returns n.
C23_AveragingRule ==
    [][ \A n \in AveragingInputs :
            do_set_averaging(n) =>
                IF \E k \in (-n)..n \cup n..(-n) : n = 100 * k
                THEN /\ raised' = "none"
                     /\ self'.buffers_per_acquisition * records_per_buffer = n
                     /\ do_get_averaging(self') = n
                ELSE /\ raised' = "ValueError"
                     /\ self' = self
      ]_vars

\* 200 has been accepted and stored as 2 buffers, and 250 then rejected
C23_Witness ==
    /\ self.buffers_per_acquisition = 2
    /\ do_get_averaging(self) = 200
    /\ raised = "ValueError"

\* C24: do_set_trigger_range(r) is rejected, the range left unchanged,
\* whenever r does not exceed the current trigger level; once an accepted
\* do_set_trigger_level has lowered the level below r, the same call is
\* accepted.
C24_RangeLevelConflict ==
    [][ \A r \in TriggerRangeInputs :
            do_set_trigger_range(r) =>
                IF r <= self.trigger_level
                THEN raised' = "ValueError" /\ self' = self
                ELSE /\ raised' = "none"
                     /\ self' = [self EXCEPT !.trigger_range = r]
      ]_vars

\* the range 1 V has been accepted after the level was lowered to 0 V
C24_Witness ==
    /\ self.trigger_range = 1000
    /\ self.trigger_level = 0
    /\ raised = "none"

\* get_data has failed on the configuration, before the capture was started
FailedBeforeCapture == acq.pc = "failed" /\ ~CaptureStarted

\* C25: when the producer has failed before startCapture, measurement_close
\* still leaves its wait loop, terminates the three workers and returns; and a
\* second measurement_close also returns and changes nothing but the count of
\* fetched buffers it resets and the result it returns.
C25_TeardownSafe ==
    /\ (main.pc = "close_wait" /\ FailedBeforeCapture)
           ~> (main.pc = "closed" /\ hist.terminated = {"acq", "cha", "chb"})
    /\ (main.pc = "close_wait" /\ hist.closes = MaxCloses)
           ~> (main.pc = "closed")
    /\ [][ hist.closes >= 1 /\ main.pc = "closed" =>
               UNCHANGED <<self, acq, treat, board, buffers, queue_data,
                           queue_closed, queue_treatment>> ]_vars

\* the step is one of the producer, of the coordinator, of a consumer
ProducerStep == acq' # acq /\ main' = main
CoordinatorStep == main' # main
ConsumerStep == acq' = acq /\ main' = main

\* C26: once the shared dict is created (on every step but the one of
\* measurement_initialization that creates a dict), 'measuring' is written
\* only by the coordinator, from true to false; 'safe_acquisition',
\* 'measured_buffers' and 'message' only by the producer, each at most once;
\* 'safe_treatment' by neither of the two.
C26_SingleWriter ==
    [][ hist'.inits = hist.inits =>
          /\ parameters'.measuring # parameters.measuring =>
                CoordinatorStep /\ parameters.measuring
          /\ parameters'.safe_acquisition # parameters.safe_acquisition =>
                ProducerStep /\ ~parameters.safe_acquisition
          /\ parameters'.measured_buffers # parameters.measured_buffers =>
                ProducerStep /\ parameters.measured_buffers = None
          /\ parameters'.message # parameters.message =>
                ProducerStep /\ ~parameters.message.written
          /\ parameters'.safe_treatment # parameters.safe_treatment =>
                ConsumerStep
      ]_vars

\* every party has written its fields: the acquisition ran to its target,
\* both consumers finished, and the coordinator then asked for the stop
C26_Witness ==
    /\ ~parameters.measuring
    /\ parameters.safe_acquisition
    /\ parameters.measured_buffers = parameters.buffers_per_acquisition
    /\ parameters.message.written
    /\ all(parameters.safe_treatment)
    /\ hist.stop_at = parameters.buffers_per_acquisition
    /\ parameters.buffers_per_acquisition >= 1

\* C27: each channel queue is closed by the producer once its loop has
\* ended, on the target count or on a stop request, after its last push; the
\* producer pushes nothing to a queue it has closed.
C27_ClosedAfterLastPush ==
    /\ (ProducerEnded /\ CaptureStarted /\ ~hist.timed_out) =>
          /\ "acq" \in queue_closed.cha
          /\ "acq" \in queue_closed.chb
    /\ "acq" \in queue_closed.cha =>
          /\ acq.pc \notin {"while", "waitAsyncBufferComplete", "put_cha",
                            "put_chb", "postAsyncBuffer"}
          /\ Len(hist.put_cha) = acq.buffersCompleted
    /\ "acq" \in queue_closed.chb =>
          /\ acq.pc = "done"
          /\ Len(hist.put_chb) = acq.buffersCompleted

\* C29: a buffer wait that times out is a hard failure: the producer makes
\* no further Board call (so no further buffer wait) and no further queue
\* push, and safe_acquisition stays false for the rest of the acquisition.
C29_TimeoutIsHardFailure ==
    hist.timed_out =>
        /\ acq.pc = "failed"
        /\ acq.error = "ApiTimeout"
        /\ ~parameters.safe_acquisition
        /\ board.calls[Len(board.calls)].op = "waitAsyncBufferComplete"
        /\ Len(hist.put_cha) = Len(hist.waited)
        /\ Len(hist.put_chb) = Len(hist.waited)

\* a wait has timed out after buffers were pushed, and the coordinator has
\* since asked for the stop
C29_Witness ==
    /\ hist.timed_out
    /\ Len(hist.put_chb) >= 1
    /\ main.pc = "close_wait"

\* the number of bytes that hold bits bits: the least k with 8 k >= bits
BytesHolding(bits) == CHOOSE k \in 0..bits : 8 * k >= bits /\ 8 * (k - 1) < bits

\* the producer has computed its buffer size (getChannelInfo was called)
Prepared == CallsOf("getChannelInfo") # {}

\* C28: for every sample width the device reports, the producer's
\* bytesPerBuffer is ceil(bitsPerSample / 8) * samplesPerRecord *
\* recordsPerBuffer * 2; at 12 bits it is the value _get_bytes_per_buffer
\* returns, 4,096,000 for 10240 samples and 100 records.
C28_BytesPerBuffer ==
    Prepared =>
        /\ acq.bytesPerBuffer =
              BytesHolding(board.bitsPerSample) * parameters.acquired_samples
                  * parameters.records_per_buffer * 2
        /\ board.bitsPerSample = 12 =>
              /\ acq.bytesPerBuffer = _get_bytes_per_buffer(self)
              /\ (self.acquired_samples = 10240 /\ parameters.records_per_buffer = 100)
                    => acq.bytesPerBuffer = 4096000

\* the buffer size was computed for a width that is not a whole number of
\* bytes and is not the 12 bits the instrument assumes
C28_Witness ==
    /\ Prepared
    /\ board.bitsPerSample % 8 # 0
    /\ board.bitsPerSample # 12
    /\ acq.bytesPerBuffer > 0

\* the position in the board's call record of the i-th call of an operation
NthCall(op, i) ==
    CHOOSE p \in CallsOf(op) : Cardinality({q \in CallsOf(op) : q < p}) = i - 1

\* the buffers posted and not yet waited for, oldest post first: the posts
\* from the one after the last wait on
Outstanding ==
    [k \in 1..(Cardinality(CallsOf("postAsyncBuffer"))
                  - Cardinality(CallsOf("waitAsyncBufferComplete"))) |->
        board.calls[NthCall("postAsyncBuffer",
            Cardinality(CallsOf("waitAsyncBufferComplete")) + k)].args[1]]

\* C30: every wait of the loop is on the oldest outstanding buffer, the head
\* of the FIFO of posts: the i-th wait follows the i-th post and is on its
\* buffer, for every pool size >= 1 and every target, a pool larger than the
\* target included; between two iterations exactly pool-size buffers are
\* posted.
C30_WaitsOnOldestPosted ==
    /\ \A i \in 1..Cardinality(CallsOf("waitAsyncBufferComplete")) :
          /\ i <= Cardinality(CallsOf("postAsyncBuffer"))
          /\ NthCall("postAsyncBuffer", i) < NthCall("waitAsyncBufferComplete", i)
          /\ board.calls[NthCall("waitAsyncBufferComplete", i)].args =
                board.calls[NthCall("postAsyncBuffer", i)].args
    /\ acq.pc = "waitAsyncBufferComplete" =>
          /\ Outstanding # <<>>
          /\ acq.buff = Head(Outstanding)
    /\ acq.pc = "while" => Len(Outstanding) = parameters.nb_buffer_allocated

\* a pool larger than the target: the loop has waited for every buffer of
\* the target and is between two iterations
C30_Witness ==
    /\ acq.pc = "while"
    /\ parameters.nb_buffer_allocated > parameters.buffers_per_acquisition
    /\ parameters.buffers_per_acquisition >= 2
    /\ Cardinality(CallsOf("waitAsyncBufferComplete"))
           = parameters.buffers_per_acquisition

\* the stored configuration fields of the instance s
StoredConfiguration(s) ==
    << s.samplerate, s.acquired_samples, s.acquisition_time, s.trigger_range,
       s.trigger_level, s.buffers_per_acquisition, s.clock_source,
       s.clock_edge >>

\* one call of a do_set_* method, with any of the arguments tried
SetterCall ==
    \/ \E n \in AveragingInputs \cup {200, 250} : do_set_averaging(n)
    \/ \E t \in AcquisitionTimeInputs : do_set_acquisition_time(t)
    \/ \E d \in TriggerDelayInputs : do_set_trigger_delay(d)
    \/ \E l \in TriggerLevelInputs : do_set_trigger_level(l)
    \/ \E r \in TriggerRangeInputs : do_set_trigger_range(r)
    \/ \E sl \in TriggerSlopeInputs : do_set_trigger_slope(sl)
    \/ \E e \in ClockEdgeInputs : do_set_clock_edge(e)
    \/ \E sr \in SamplerateInputs : do_set_samplerate(sr)
    \/ \E cs \in ClockSourceInputs : do_set_clock_source(cs)

\* C31: the setters are atomic on error: when a do_set_* call raises
\* ValueError every stored configuration field has the value it had before
\* the call, whatever the configuration before it, acquired_samples = 256
\* included.
C31_SettersAtomicOnError ==
    [][ (SetterCall /\ raised' = "ValueError")
            => StoredConfiguration(self') = StoredConfiguration(self) ]_vars

\* C32: the stored acquisition time stays consistent with the stored sample
\* count and rate: after any sequence of do_set_acquisition_time and
\* do_set_samplerate calls, accepted or rejected, acquisition_time =
\* acquired_samples / samplerate * 1000; an accepted do_set_samplerate leaves
\* acquired_samples unchanged.
C32_AcquisitionTimeConsistent ==
    /\ [](self.acquisition_time
              = AcquisitionTime(self.acquired_samples, self.samplerate))
    /\ [][ \A sr \in SamplerateInputs :
               (do_set_samplerate(sr) /\ raised' = "none")
                   => self'.acquired_samples = self.acquired_samples ]_vars

=============================================================================
